---------------------------- MODULE Spec2Model ----------------------------
(***************************************************************************)
(* Persistent collections of plist-rs: the cons list (list.rs), the        *)
(* association map built on it (map.rs) and the layered map that puts such *)
(* a map over a shared hash table (hammer_map.rs).                         *)
(*                                                                         *)
(* Rc<Cons<T>> cells live in one append-only arena, `heap`; an             *)
(* Option<Rc<Cons<T>>> is an index into it, 0 for None.  A head table, an  *)
(* Rc<HashMap<K,V>> that nothing can write to, is the sequence of its      *)
(* entries in the order its iterator yields them, which the program does   *)
(* not choose.                                                             *)
(* Handles are immutable values; the program's handles are the sets        *)
(* `lists` (List<(K,V)>), `maps` (Map<K,V>) and `hmaps` (HammerMap<K,V>).  *)
(***************************************************************************)
EXTENDS Integers, Sequences, FiniteSets, TLC

\* Bounds of the model: the cells a run of lists or maps allocates, the entries
\* (head table entries and overlay cells) a run of layered maps creates, the
\* handles the program holds at a time.
MaxCells == 3
MaxEntries == 3
MaxHandles == 2

\* The type parameters K and V: the code only compares keys with keys and values
\* with values, so two of each show every outcome of a comparison.
Keys == {1, 2}
Values == {1, 2}
Pairs == Keys \X Values

VARIABLES
    heap,     \* Seq of Cons cells [head, tail]: the Rc<Cons<(K,V)>> allocations
    lists,    \* the List handles the program holds
    maps,     \* the Map handles the program holds
    hmaps,    \* the HammerMap handles the program holds
    hist,     \* history: for each map handle, the pairs inserted, oldest first
    parent    \* history: for each map handle, the handle it was derived from

vars == <<heap, lists, maps, hmaps, hist, parent>>

\* A sequence back to front.
Reverse(s) == [i \in 1..Len(s) |-> s[Len(s) + 1 - i]]

\* Option<T>
None == <<>>
Some(x) == <<x>>

-----------------------------------------------------------------------------
(* list.rs *)

\* List::new
ListNew == [cons |-> 0, size |-> 0]

\* List::len
ListLen(l) == l.size

\* List::is_empty
ListIsEmpty(l) == l.size = 0

\* A push_front that also writes the new element into the cell it pushes onto.
ListPushFrontInPlace(hp, l, head) ==
    [heap |-> Append(IF l.cons = 0 THEN hp ELSE [hp EXCEPT ![l.cons].head = head],
                     [head |-> head, tail |-> l.cons]),
     out  |-> [cons |-> Len(hp) + 1, size |-> l.size + 1]]

\* A push_front that forgets to count the new cell.
ListPushFrontNoCount(hp, l, head) ==
    [heap |-> Append(hp, [head |-> head, tail |-> l.cons]),
     out  |-> [cons |-> Len(hp) + 1, size |-> l.size]]

\* List::push_front: one new cell whose tail is the old head.
ListPushFront(hp, l, head) ==
    [heap |-> Append(hp, [head |-> head, tail |-> l.cons]),
     out  |-> [cons |-> Len(hp) + 1, size |-> l.size + 1]]

\* A push_front_many that takes the items last to first.
RECURSIVE ListPushFrontManyBackwards(_, _, _)
ListPushFrontManyBackwards(hp, l, items) ==
    IF items = <<>> THEN [heap |-> hp, out |-> l]
    ELSE LET r == ListPushFront(hp, l, items[Len(items)])
         IN  ListPushFrontManyBackwards(r.heap, r.out, SubSeq(items, 1, Len(items) - 1))

\* List::push_front_many: push_front folded over the items, first to last.
RECURSIVE ListPushFrontMany(_, _, _)
ListPushFrontMany(hp, l, items) ==
    IF items = <<>> THEN [heap |-> hp, out |-> l]
    ELSE LET r == ListPushFront(hp, l, Head(items))
         IN  ListPushFrontMany(r.heap, r.out, Tail(items))

\* A pop_front that keeps the size of the list it pops.
ListPopFrontKeepSize(hp, l) ==
    IF l.cons # 0 THEN [cons |-> hp[l.cons].tail, size |-> l.size]
    ELSE ListNew

\* A pop_front without the branch for the empty list.
ListPopFrontUnchecked(hp, l) ==
    [cons |-> IF l.cons # 0 THEN hp[l.cons].tail ELSE 0, size |-> l.size - 1]

\* List::pop_front
ListPopFront(hp, l) ==
    IF l.cons # 0 THEN [cons |-> hp[l.cons].tail, size |-> l.size - 1]
    ELSE ListNew

\* Clone for List: the same cell, the same size.
ListClone(l) == [cons |-> l.cons, size |-> l.size]

\* FromIterator for List: push_front onto List::new(), first item to last.
RECURSIVE ListFromIterLoop(_, _, _)
ListFromIterLoop(hp, list, items) ==
    IF items = <<>> THEN [heap |-> hp, out |-> list]
    ELSE LET r == ListPushFront(hp, list, Head(items))
         IN  ListFromIterLoop(r.heap, r.out, Tail(items))

ListFromIter(hp, items) == ListFromIterLoop(hp, ListNew, items)

\* IntoIterator for &List
ListIntoIter(l) == l.cons

\* ListIterator::next: the item, and the iterator after the call.
ListIteratorNext(hp, it) ==
    IF it # 0 THEN [iter |-> hp[it].tail, item |-> Some(hp[it].head)]
    ELSE [iter |-> it, item |-> None]

\* Everything a ListIterator yields until it returns None.
RECURSIVE ListDrain(_, _)
ListDrain(hp, it) ==
    LET r == ListIteratorNext(hp, it)
    IN  IF r.item = None THEN <<>> ELSE r.item \o ListDrain(hp, r.iter)

ListItems(hp, l) == ListDrain(hp, ListIntoIter(l))

\* #[derive(PartialEq)] for Cons behind Option<Rc<_>>: head with head, then tail
\* with tail.
RECURSIVE ConsEq(_, _, _)
ConsEq(hp, a, b) ==
    IF a = 0 \/ b = 0 THEN a = b
    ELSE hp[a].head = hp[b].head /\ ConsEq(hp, hp[a].tail, hp[b].tail)

\* #[derive(PartialEq)] for List: cons with cons, then size with size.
ListEq(hp, a, b) == ConsEq(hp, a.cons, b.cons) /\ a.size = b.size

\* Ord::cmp on integers
IntCmp(x, y) == IF x < y THEN "Less" ELSE IF x > y THEN "Greater" ELSE "Equal"

\* Ord for the tuple (K, V): the first component, then the second.
PairCmp(p, q) ==
    IF IntCmp(p[1], q[1]) # "Equal" THEN IntCmp(p[1], q[1]) ELSE IntCmp(p[2], q[2])

\* #[derive(Ord)] for Cons behind Option<Rc<_>>: None is less than Some; two
\* cells compare head with head, then tail with tail.
RECURSIVE ConsCmp(_, _, _)
ConsCmp(hp, a, b) ==
    IF a = 0 /\ b = 0 THEN "Equal"
    ELSE IF a = 0 THEN "Less"
    ELSE IF b = 0 THEN "Greater"
    ELSE IF PairCmp(hp[a].head, hp[b].head) # "Equal"
         THEN PairCmp(hp[a].head, hp[b].head)
    ELSE ConsCmp(hp, hp[a].tail, hp[b].tail)

\* A comparison of lists that takes the fields in the other order: size, then cons.
ListCmpSizeFirst(hp, a, b) ==
    IF IntCmp(a.size, b.size) # "Equal" THEN IntCmp(a.size, b.size)
    ELSE ConsCmp(hp, a.cons, b.cons)

\* #[derive(PartialOrd, Ord)] for List: cons with cons, then size with size.
ListCmp(hp, a, b) ==
    IF ConsCmp(hp, a.cons, b.cons) # "Equal" THEN ConsCmp(hp, a.cons, b.cons)
    ELSE IntCmp(a.size, b.size)

\* a < b
ListLt(hp, a, b) == ListCmp(hp, a, b) = "Less"

\* Debug for a (K, V) tuple of integers: (k, v)
PairDebug(p) == <<"(", ToString(p[1]), ", ", ToString(p[2]), ")">>

\* #[derive(Debug)] for Cons behind Option<Rc<_>>: the output as a sequence of
\* pieces of text.
RECURSIVE ConsDebug(_, _)
ConsDebug(hp, c) ==
    IF c = 0 THEN <<"None">>
    ELSE <<"Some(", "Cons { ", "head: ">> \o PairDebug(hp[c].head)
         \o <<", ", "tail: ">> \o ConsDebug(hp, hp[c].tail) \o <<" }", ")">>

\* #[derive(Debug)] for List
ListDebug(hp, l) ==
    <<"List { ", "cons: ">> \o ConsDebug(hp, l.cons)
    \o <<", ", "size: ", ToString(l.size), " }">>

\* List::contains
ListContains(hp, l, value) ==
    LET items == ListItems(hp, l)
    IN  \E i \in 1..Len(items) : items[i] = value

-----------------------------------------------------------------------------
(* map.rs: Map<K,V>(List<(K,V)>) *)

\* Map::new
MapNew == ListNew

\* A find that keeps looking and returns the value of the last pair that matches.
RECURSIVE MapFindOldest(_, _, _)
MapFindOldest(hp, it, key) ==
    LET r == ListIteratorNext(hp, it)
    IN  IF r.item = None THEN None
        ELSE LET rest == MapFindOldest(hp, r.iter, key)
             IN  IF rest # None THEN rest
                 ELSE IF r.item[1][1] = key THEN Some(r.item[1][2])
                 ELSE None

\* Map::get: find_map over the list, front to back.
RECURSIVE MapFind(_, _, _)
MapFind(hp, it, key) ==
    LET r == ListIteratorNext(hp, it)
    IN  IF r.item = None THEN None
        ELSE IF r.item[1][1] = key THEN Some(r.item[1][2])
        ELSE MapFind(hp, r.iter, key)

MapGet(hp, m, key) == MapFind(hp, ListIntoIter(m), key)

\* Option::expect: the value of Some, a panic on None.
Expect(opt) ==
    IF opt = None THEN [panic |-> TRUE, value |-> None]
    ELSE [panic |-> FALSE, value |-> opt]

\* Index for Map: self.get(key).expect("existent key")
MapIndex(hp, m, key) == Expect(MapGet(hp, m, key))

\* Map::insert
MapInsert(hp, m, key, value) == ListPushFront(hp, m, <<key, value>>)

\* Map::insert_many
MapInsertMany(hp, m, items) == ListPushFrontMany(hp, m, items)

\* FromIterator for Map: Self::new().insert_many(iterator)
MapFromIter(hp, items) == MapInsertMany(hp, MapNew, items)

\* IntoIterator for &Map
MapIntoIter(m) == [iterator |-> ListIntoIter(m), set |-> {}]

\* A MapIterator::next that yields every pair of the list.
MapIteratorNextNoDedup(hp, mi) ==
    LET r == ListIteratorNext(hp, mi.iterator)
    IN  IF r.item = None THEN [iter |-> mi, item |-> None]
        ELSE [iter |-> [iterator |-> r.iter, set |-> mi.set \cup {r.item[1][1]}],
              item |-> r.item]

\* MapIterator::next
RECURSIVE MapIteratorNext(_, _)
MapIteratorNext(hp, mi) ==
    LET r == ListIteratorNext(hp, mi.iterator)
    IN  IF r.item = None THEN [iter |-> mi, item |-> None]
        ELSE IF r.item[1][1] \in mi.set
             THEN MapIteratorNext(hp, [mi EXCEPT !.iterator = r.iter])
        ELSE [iter |-> [iterator |-> r.iter, set |-> mi.set \cup {r.item[1][1]}],
              item |-> r.item]

\* Everything a MapIterator yields until it returns None.
RECURSIVE MapDrain(_, _)
MapDrain(hp, mi) ==
    LET r == MapIteratorNext(hp, mi)
    IN  IF r.item = None THEN <<>> ELSE r.item \o MapDrain(hp, r.iter)

MapItems(hp, m) == MapDrain(hp, MapIntoIter(m))

\* Map::keys
MapKeys(hp, m) ==
    LET items == MapItems(hp, m)
    IN  [i \in 1..Len(items) |-> items[i][1]]

\* A len that returns the length of the underlying list.
MapLenRaw(hp, m) == ListLen(m)

\* Map::len: the keys collected into a HashSet.
MapLen(hp, m) ==
    LET keys == MapKeys(hp, m)
    IN  Cardinality({keys[i] : i \in 1..Len(keys)})

\* Map::is_empty
MapIsEmpty(m) == ListIsEmpty(m)

\* Map::contains_key
MapContainsKey(hp, m, key) ==
    LET keys == MapKeys(hp, m)
    IN  \E i \in 1..Len(keys) : keys[i] = key

\* collect::<HashMap<_, _>>(): the pairs inserted in order, a later one replacing
\* an earlier one with the same key.
RECURSIVE CollectHashMap(_)
CollectHashMap(items) ==
    IF items = <<>> THEN <<>>
    ELSE LET n    == Len(items)
             rest == CollectHashMap(SubSeq(items, 1, n - 1))
         IN  [k \in DOMAIN rest \cup {items[n][1]} |->
                 IF k = items[n][1] THEN items[n][2] ELSE rest[k]]

\* #[derive(Debug)] for the tuple struct Map(List<(K, V)>)
MapDebug(hp, m) == <<"Map(">> \o ListDebug(hp, m) \o <<")">>

\* PartialEq for Map: every pair of `other` is looked up in the table collected
\* from `self`.
MapEq(hp, self, other) ==
    LET set   == CollectHashMap(MapItems(hp, self))
        pairs == MapItems(hp, other)
    IN  \A i \in 1..Len(pairs) :
            /\ pairs[i][1] \in DOMAIN set
            /\ pairs[i][2] = set[pairs[i][1]]

-----------------------------------------------------------------------------
(* hammer_map.rs: HammerMap { chain: Map<K,V>, head: Rc<HashMap<K,V>> } *)

\* HashMap::get on a head table
TableGet(t, key) ==
    IF \E i \in 1..Len(t) : t[i][1] = key
    THEN Some(t[CHOOSE i \in 1..Len(t) : t[i][1] = key][2])
    ELSE None

\* HammerMap::new: an empty chain over the table it is given.
HammerNew(head) == [chain |-> MapNew, head |-> head]

\* A get that asks the head table first.
HammerGetHeadFirst(hp, h, key) ==
    LET t == TableGet(h.head, key)
    IN  IF t # None THEN t ELSE MapGet(hp, h.chain, key)

\* HammerMap::get
HammerGet(hp, h, key) ==
    LET c == MapGet(hp, h.chain, key)
    IN  IF c # None THEN c ELSE TableGet(h.head, key)

\* An index that looks the key up in the chain only.
HammerIndexChainOnly(hp, h, key) == Expect(MapGet(hp, h.chain, key))

\* Index for HammerMap: self.get(key).expect("existent key")
HammerIndex(hp, h, key) == Expect(HammerGet(hp, h, key))

\* HammerMap::insert
HammerInsert(hp, h, key, value) ==
    LET r == MapInsert(hp, h.chain, key, value)
    IN  [heap |-> r.heap, out |-> [chain |-> r.out, head |-> h.head]]

\* HammerMap::insert_many
HammerInsertMany(hp, h, items) ==
    LET r == MapInsertMany(hp, h.chain, items)
    IN  [heap |-> r.heap, out |-> [chain |-> r.out, head |-> h.head]]

\* HammerMap::is_empty
HammerIsEmpty(h) == MapIsEmpty(h.chain) /\ Len(h.head) = 0

\* IntoIterator for &HammerMap; the head iterator is a position in the table.
HammerIntoIter(h) ==
    [chain_iterator |-> MapIntoIter(h.chain),
     head_iterator  |-> [table |-> h.head, pos |-> 1],
     set            |-> {}]

\* A next that ends with the chain and never reads the head table.
HammerIteratorNextChainOnly(hp, hi) ==
    LET c == MapIteratorNext(hp, hi.chain_iterator)
    IN  IF c.item # None
        THEN [iter |-> [hi EXCEPT !.chain_iterator = c.iter,
                                  !.set = hi.set \cup {c.item[1][1]}],
              item |-> c.item]
        ELSE [iter |-> [hi EXCEPT !.chain_iterator = c.iter], item |-> None]

\* A next that yields the head's entries without looking at the keys it has seen.
HammerIteratorNextNoSkip(hp, hi) ==
    LET c == MapIteratorNext(hp, hi.chain_iterator)
        t == hi.head_iterator.table
        p == hi.head_iterator.pos
    IN  IF c.item # None
        THEN [iter |-> [hi EXCEPT !.chain_iterator = c.iter,
                                  !.set = hi.set \cup {c.item[1][1]}],
              item |-> c.item]
        ELSE IF p <= Len(t)
        THEN [iter |-> [hi EXCEPT !.chain_iterator = c.iter,
                                  !.head_iterator.pos = p + 1,
                                  !.set = hi.set \cup {t[p][1]}],
              item |-> Some(t[p])]
        ELSE [iter |-> [hi EXCEPT !.chain_iterator = c.iter], item |-> None]

\* HammerMapIterator::next
RECURSIVE HammerIteratorNext(_, _)
HammerIteratorNext(hp, hi) ==
    LET c == MapIteratorNext(hp, hi.chain_iterator)
        t == hi.head_iterator.table
        p == hi.head_iterator.pos
    IN  IF c.item # None
        THEN IF c.item[1][1] \in hi.set
             THEN HammerIteratorNext(hp, [hi EXCEPT !.chain_iterator = c.iter])
             ELSE [iter |-> [hi EXCEPT !.chain_iterator = c.iter,
                                       !.set = hi.set \cup {c.item[1][1]}],
                   item |-> c.item]
        ELSE IF p <= Len(t)
        THEN IF t[p][1] \in hi.set
             THEN HammerIteratorNext(hp,
                      [hi EXCEPT !.chain_iterator = c.iter, !.head_iterator.pos = p + 1])
             ELSE [iter |-> [hi EXCEPT !.chain_iterator = c.iter,
                                       !.head_iterator.pos = p + 1,
                                       !.set = hi.set \cup {t[p][1]}],
                   item |-> Some(t[p])]
        ELSE [iter |-> [hi EXCEPT !.chain_iterator = c.iter], item |-> None]

\* Everything a HammerMapIterator yields until it returns None.
RECURSIVE HammerDrain(_, _)
HammerDrain(hp, hi) ==
    LET r == HammerIteratorNext(hp, hi)
    IN  IF r.item = None THEN <<>> ELSE r.item \o HammerDrain(hp, r.iter)

HammerItems(hp, h) == HammerDrain(hp, HammerIntoIter(h))

\* HammerMap::keys
HammerKeys(hp, h) ==
    LET items == HammerItems(hp, h)
    IN  [i \in 1..Len(items) |-> items[i][1]]

\* HammerMap::len
HammerLen(hp, h) ==
    LET keys == HammerKeys(hp, h)
    IN  Cardinality({keys[i] : i \in 1..Len(keys)})

\* A contains_key that scans the keys of the chain only.
HammerContainsKeyChainOnly(hp, h, key) == MapContainsKey(hp, h.chain, key)

\* HammerMap::contains_key
HammerContainsKey(hp, h, key) ==
    LET keys == HammerKeys(hp, h)
    IN  \E i \in 1..Len(keys) : keys[i] = key

\* Debug for HammerMap: the pairs of the iteration as key: value, a comma after
\* each but the last, in braces.
RECURSIVE HammerDebugLoop(_, _, _)
HammerDebugLoop(items, index, len) ==
    IF index >= Len(items) THEN <<>>
    ELSE <<ToString(items[index + 1][1]), ": ", ToString(items[index + 1][2])>>
         \o (IF index < len - 1 THEN <<", ">> ELSE <<>>)
         \o HammerDebugLoop(items, index + 1, len)

HammerDebug(hp, h) ==
    <<"{">> \o HammerDebugLoop(HammerItems(hp, h), 0, HammerLen(hp, h)) \o <<"}">>

\* The orders in which a HashMap holding the mapping f can iterate.
TableOrders(f) ==
    {t \in [1..Cardinality(DOMAIN f) -> Pairs] :
        /\ \A i \in DOMAIN t : t[i][1] \in DOMAIN f /\ t[i][2] = f[t[i][1]]
        /\ \A i, j \in DOMAIN t : t[i][1] = t[j][1] => i = j}

\* A collect that keeps the first value it meets for a key.
HammerFromIterKeepFirst(items) ==
    {HammerNew(t) : t \in TableOrders(CollectHashMap(Reverse(items)))}

\* FromIterator for HammerMap: Self::new(iterator.into_iter().collect()); the
\* maps it can return, one for each order the collected table can iterate in.
HammerFromIter(items) == {HammerNew(t) : t \in TableOrders(CollectHashMap(items))}

\* PartialEq for HammerMap
HammerEq(hp, self, other) ==
    LET set   == CollectHashMap(HammerItems(hp, self))
        pairs == HammerItems(hp, other)
    IN  \A i \in 1..Len(pairs) :
            /\ pairs[i][1] \in DOMAIN set
            /\ pairs[i][2] = set[pairs[i][1]]

-----------------------------------------------------------------------------
(* flail_map.rs: the text of hammer_map.rs with the type named FlailMap. *)

FlailGet(hp, h, key) == HammerGet(hp, h, key)
FlailIsEmpty(h) == HammerIsEmpty(h)
FlailItems(hp, h) == HammerItems(hp, h)
FlailLen(hp, h) == HammerLen(hp, h)
FlailContainsKey(hp, h, key) == HammerContainsKey(hp, h, key)
FlailEq(hp, self, other) == HammerEq(hp, self, other)

-----------------------------------------------------------------------------
(* chain_map.rs: ChainMap { chain: Map<K,V>, head: Rc<HashMap<K,V>> }.  The   *)
(* file is not a module of lib.rs.  Its methods are those of HammerMap but    *)
(* for the iterator: next reads `self.iterator`, a field ChainMapIterator     *)
(* does not declare.  The one field that yields the (&K, &V) next returns is  *)
(* chain_iterator, and the head iterator is never read.                       *)

\* ChainMap::get
ChainGet(hp, h, key) ==
    LET c == MapGet(hp, h.chain, key)
    IN  IF c # None THEN c ELSE TableGet(h.head, key)

\* ChainMap::is_empty
ChainIsEmpty(h) == MapIsEmpty(h.chain) /\ Len(h.head) = 0

\* IntoIterator for &ChainMap
ChainIntoIter(h) ==
    [chain_iterator |-> MapIntoIter(h.chain),
     head_iterator  |-> [table |-> h.head, pos |-> 1],
     set            |-> {}]

\* ChainMapIterator::next
RECURSIVE ChainIteratorNext(_, _)
ChainIteratorNext(hp, ci) ==
    LET c == MapIteratorNext(hp, ci.chain_iterator)
    IN  IF c.item # None
        THEN IF c.item[1][1] \in ci.set
             THEN ChainIteratorNext(hp, [ci EXCEPT !.chain_iterator = c.iter])
             ELSE [iter |-> [ci EXCEPT !.chain_iterator = c.iter,
                                       !.set = ci.set \cup {c.item[1][1]}],
                   item |-> c.item]
        ELSE [iter |-> [ci EXCEPT !.chain_iterator = c.iter], item |-> None]

\* Everything a ChainMapIterator yields until it returns None.
RECURSIVE ChainDrain(_, _)
ChainDrain(hp, ci) ==
    LET r == ChainIteratorNext(hp, ci)
    IN  IF r.item = None THEN <<>> ELSE r.item \o ChainDrain(hp, r.iter)

ChainItems(hp, h) == ChainDrain(hp, ChainIntoIter(h))

\* ChainMap::keys
ChainKeys(hp, h) ==
    LET items == ChainItems(hp, h)
    IN  [i \in 1..Len(items) |-> items[i][1]]

\* ChainMap::len
ChainLen(hp, h) ==
    LET keys == ChainKeys(hp, h)
    IN  Cardinality({keys[i] : i \in 1..Len(keys)})

\* ChainMap::contains_key
ChainContainsKey(hp, h, key) ==
    LET keys == ChainKeys(hp, h)
    IN  \E i \in 1..Len(keys) : keys[i] = key

\* PartialEq for ChainMap
ChainEq(hp, self, other) ==
    LET set   == CollectHashMap(ChainItems(hp, self))
        pairs == ChainItems(hp, other)
    IN  \A i \in 1..Len(pairs) :
            /\ pairs[i][1] \in DOMAIN set
            /\ pairs[i][2] = set[pairs[i][1]]

-----------------------------------------------------------------------------
(* The inputs a caller can pass. *)

\* Sequences of at most n pairs.
SeqsUpTo(n) == UNION {[1..m -> Pairs] : m \in 0..n}

\* The entries of the head tables of a set of HammerMap handles.
RECURSIVE SumLen(_)
SumLen(ts) ==
    IF ts = {} THEN 0
    ELSE LET t == CHOOSE t \in ts : TRUE IN Len(t) + SumLen(ts \ {t})

HeadEntries(hs) == SumLen({h.head : h \in hs})

\* A HashMap<K,V> handed to HammerMap::new: distinct keys, in any iteration order.
HeadTables ==
    {t \in SeqsUpTo(Cardinality(Keys)) : \A i, j \in 1..Len(t) : t[i][1] = t[j][1] => i = j}

-----------------------------------------------------------------------------
(* The program: any sequence of calls on the handles it holds.  A call's    *)
(* result is a new handle; the caller either keeps the handle it called on  *)
(* (let b = a.insert(k, v)) or lets the new one replace it                  *)
(* (a = a.insert(k, v)).  The three collections share nothing but the       *)
(* allocator, so a run works on one of them.                                *)

Init ==
    /\ heap = <<>>
    /\ lists = {}
    /\ maps = {}
    /\ hmaps = {}
    /\ hist = <<>>
    /\ parent = <<>>

\* The handles after a call on p that returned n.
Held(handles, p, n, keep) == (IF keep THEN handles ELSE handles \ {p}) \cup {n}

\* The history of the handles after a call on p that inserted items and returned n.
HistAfter(handles, p, n, items, keep) ==
    [x \in Held(handles, p, n, keep) |->
        IF x \in handles THEN hist[x] ELSE hist[p] \o items]

ParentAfter(handles, p, n, keep) ==
    [x \in Held(handles, p, n, keep) |-> IF x \in handles THEN parent[x] ELSE p]

\* List::new()
ListNewCall ==
    /\ maps = {} /\ hmaps = {}
    /\ ListNew \notin lists
    /\ Cardinality(lists) < MaxHandles
    /\ lists' = lists \cup {ListNew}
    /\ UNCHANGED <<heap, maps, hmaps, hist, parent>>

\* l.push_front(head)
ListPushFrontCall(l, head, keep) ==
    /\ Len(heap) < MaxCells
    /\ LET r == ListPushFront(heap, l, head)
       IN  /\ Cardinality(Held(lists, l, r.out, keep)) <= MaxHandles
           /\ heap' = r.heap
           /\ lists' = Held(lists, l, r.out, keep)
    /\ UNCHANGED <<maps, hmaps, hist, parent>>

\* l.push_front_many(items)
ListPushFrontManyCall(l, items, keep) ==
    /\ LET r == ListPushFrontMany(heap, l, items)
       IN  /\ Cardinality(Held(lists, l, r.out, keep)) <= MaxHandles
           /\ heap' = r.heap
           /\ lists' = Held(lists, l, r.out, keep)
    /\ UNCHANGED <<maps, hmaps, hist, parent>>

\* l.clone(): a second handle on the same cells.
ListCloneCall(l) ==
    /\ lists' = lists \cup {ListClone(l)}
    /\ UNCHANGED <<heap, maps, hmaps, hist, parent>>

\* items.into_iter().collect::<List<_>>()
ListFromIterCall(items) ==
    /\ maps = {} /\ hmaps = {}
    /\ LET r == ListFromIter(heap, items)
       IN  /\ Cardinality(lists \cup {r.out}) <= MaxHandles
           /\ heap' = r.heap
           /\ lists' = lists \cup {r.out}
    /\ UNCHANGED <<maps, hmaps, hist, parent>>

\* l.pop_front()
ListPopFrontCall(l, keep) ==
    /\ Cardinality(Held(lists, l, ListPopFront(heap, l), keep)) <= MaxHandles
    /\ lists' = Held(lists, l, ListPopFront(heap, l), keep)
    /\ UNCHANGED <<heap, maps, hmaps, hist, parent>>

\* Map::new()
MapNewCall ==
    /\ lists = {} /\ hmaps = {}
    /\ MapNew \notin maps
    /\ Cardinality(maps) < MaxHandles
    /\ maps' = maps \cup {MapNew}
    /\ hist' = [x \in maps \cup {MapNew} |-> IF x = MapNew THEN <<>> ELSE hist[x]]
    /\ parent' = [x \in maps \cup {MapNew} |-> IF x = MapNew THEN MapNew ELSE parent[x]]
    /\ UNCHANGED <<heap, lists, hmaps>>

\* items.into_iter().collect::<Map<_, _>>()
MapFromIterCall(items) ==
    /\ lists = {} /\ hmaps = {}
    /\ LET r == MapFromIter(heap, items)
       IN  /\ Cardinality(maps \cup {r.out}) <= MaxHandles
           /\ heap' = r.heap
           /\ maps' = maps \cup {r.out}
           /\ hist' = [x \in maps \cup {r.out} |-> IF x \in maps THEN hist[x] ELSE items]
           /\ parent' = [x \in maps \cup {r.out} |->
                            IF x \in maps THEN parent[x] ELSE r.out]
    /\ UNCHANGED <<lists, hmaps>>

\* m.insert(key, value)
MapInsertCall(m, key, value, keep) ==
    /\ Len(heap) < MaxCells
    /\ LET r == MapInsert(heap, m, key, value)
       IN  /\ Cardinality(Held(maps, m, r.out, keep)) <= MaxHandles
           /\ heap' = r.heap
           /\ maps' = Held(maps, m, r.out, keep)
           /\ hist' = HistAfter(maps, m, r.out, <<<<key, value>>>>, keep)
           /\ parent' = ParentAfter(maps, m, r.out, keep)
    /\ UNCHANGED <<lists, hmaps>>

\* m.insert_many(items)
MapInsertManyCall(m, items, keep) ==
    /\ LET r == MapInsertMany(heap, m, items)
       IN  /\ Cardinality(Held(maps, m, r.out, keep)) <= MaxHandles
           /\ heap' = r.heap
           /\ maps' = Held(maps, m, r.out, keep)
           /\ hist' = HistAfter(maps, m, r.out, items, keep)
           /\ parent' = ParentAfter(maps, m, r.out, keep)
    /\ UNCHANGED <<lists, hmaps>>

\* HammerMap::new(head)
HammerNewCall(t) ==
    /\ lists = {} /\ maps = {}
    /\ HammerNew(t) \notin hmaps
    /\ Len(heap) + HeadEntries(hmaps \cup {HammerNew(t)}) <= MaxEntries
    /\ Cardinality(hmaps) < MaxHandles
    /\ LET n == HammerNew(t)
       IN  /\ hmaps' = hmaps \cup {n}
           /\ hist' = [x \in hmaps \cup {n} |-> IF x = n THEN <<>> ELSE hist[x]]
           /\ parent' = [x \in hmaps \cup {n} |-> IF x = n THEN n ELSE parent[x]]
    /\ UNCHANGED <<heap, lists, maps>>

\* items.into_iter().collect::<HammerMap<_, _>>(), returning n
HammerFromIterCall(items, n) ==
    /\ lists = {} /\ maps = {}
    /\ n \in HammerFromIter(items)
    /\ Len(heap) + HeadEntries(hmaps \cup {n}) <= MaxEntries
    /\ Cardinality(hmaps \cup {n}) <= MaxHandles
    /\ hmaps' = hmaps \cup {n}
    /\ hist' = [x \in hmaps \cup {n} |-> IF x \in hmaps THEN hist[x] ELSE <<>>]
    /\ parent' = [x \in hmaps \cup {n} |-> IF x \in hmaps THEN parent[x] ELSE n]
    /\ UNCHANGED <<heap, lists, maps>>

\* h.insert(key, value)
HammerInsertCall(h, key, value, keep) ==
    /\ Len(heap) + HeadEntries(hmaps) < MaxEntries
    /\ LET r == HammerInsert(heap, h, key, value)
       IN  /\ Cardinality(Held(hmaps, h, r.out, keep)) <= MaxHandles
           /\ heap' = r.heap
           /\ hmaps' = Held(hmaps, h, r.out, keep)
           /\ hist' = HistAfter(hmaps, h, r.out, <<<<key, value>>>>, keep)
           /\ parent' = ParentAfter(hmaps, h, r.out, keep)
    /\ UNCHANGED <<lists, maps>>

\* h.insert_many(items)
HammerInsertManyCall(h, items, keep) ==
    /\ LET r == HammerInsertMany(heap, h, items)
       IN  /\ Cardinality(Held(hmaps, h, r.out, keep)) <= MaxHandles
           /\ heap' = r.heap
           /\ hmaps' = Held(hmaps, h, r.out, keep)
           /\ hist' = HistAfter(hmaps, h, r.out, items, keep)
           /\ parent' = ParentAfter(hmaps, h, r.out, keep)
    /\ UNCHANGED <<lists, maps>>

Next ==
    \/ ListNewCall
    \/ \E l \in lists, x \in Pairs, keep \in BOOLEAN : ListPushFrontCall(l, x, keep)
    \/ \E l \in lists, items \in SeqsUpTo(MaxCells - Len(heap)), keep \in BOOLEAN :
           ListPushFrontManyCall(l, items, keep)
    \/ \E l \in lists : ListCloneCall(l)
    \/ \E items \in SeqsUpTo(MaxCells - Len(heap)) : ListFromIterCall(items)
    \/ \E l \in lists, keep \in BOOLEAN : ListPopFrontCall(l, keep)
    \/ MapNewCall
    \/ \E items \in SeqsUpTo(MaxCells - Len(heap)) : MapFromIterCall(items)
    \/ \E m \in maps, k \in Keys, v \in Values, keep \in BOOLEAN :
           MapInsertCall(m, k, v, keep)
    \/ \E m \in maps, items \in SeqsUpTo(MaxCells - Len(heap)), keep \in BOOLEAN :
           MapInsertManyCall(m, items, keep)
    \/ \E t \in HeadTables : HammerNewCall(t)
    \/ \E items \in SeqsUpTo(MaxEntries - Len(heap) - HeadEntries(hmaps)) :
           \E n \in HammerFromIter(items) : HammerFromIterCall(items, n)
    \/ \E h \in hmaps, k \in Keys, v \in Values, keep \in BOOLEAN :
           HammerInsertCall(h, k, v, keep)
    \/ \E h \in hmaps, items \in SeqsUpTo(MaxEntries - Len(heap) - HeadEntries(hmaps)),
          keep \in BOOLEAN :
           HammerInsertManyCall(h, items, keep)

Spec == Init /\ [][Next]_vars

-----------------------------------------------------------------------------
(* What the calls that built a map say its contents are. *)

\* The value of the last pair of s with key k.
Latest(s, k) ==
    IF \E i \in 1..Len(s) : s[i][1] = k
    THEN Some(s[CHOOSE i \in 1..Len(s) :
                   s[i][1] = k /\ \A j \in (i + 1)..Len(s) : s[j][1] # k][2])
    ELSE None

KeysOf(s) == {s[i][1] : i \in 1..Len(s)}

\* The pairs of s, newest first, each key at its last pair only.
RECURSIVE NewestFirst(_)
NewestFirst(s) ==
    IF s = <<>> THEN <<>>
    ELSE LET last  == s[Len(s)]
             Older(p) == p[1] # last[1]
         IN  <<last>> \o NewestFirst(SelectSeq(SubSeq(s, 1, Len(s) - 1), Older))

\* The pairs of the list under a map, each key with the value of its frontmost pair.
EffectivePairs(m) ==
    LET items == ListItems(heap, m)
    IN  {items[i] : i \in {i \in 1..Len(items) :
                              \A j \in 1..(i - 1) : items[j][1] # items[i][1]}}

\* The key-to-value mapping of a layered map: the overlay's latest pair for a key,
\* otherwise the head's.
EffectiveMapping(h) ==
    {p \in Pairs : \/ Latest(hist[h], p[1]) = Some(p[2])
                   \/ /\ Latest(hist[h], p[1]) = None
                      /\ \E i \in 1..Len(h.head) : h.head[i] = p}

\* The head's pairs, in the head's order, whose key the overlay does not have.
HeadRest(h) ==
    LET Unshadowed(p) == p[1] \notin KeysOf(hist[h])
    IN  SelectSeq(h.head, Unshadowed)

NoDuplicateKeys(s) == \A i, j \in 1..Len(s) : s[i][1] = s[j][1] => i = j

-----------------------------------------------------------------------------
(* Claims *)

\* C1: for all Map values a and b, a == b is true if and only if a and b hold the
\* same set of (key, effective value) pairs.
C1_MapEqExtensional ==
    \A a, b \in maps : MapEq(heap, a, b) <=> (EffectivePairs(a) = EffectivePairs(b))

\* C2: equality is symmetric, for Map and for HammerMap: a == b and b == a return
\* the same boolean.
C2_EqSymmetric ==
    /\ \A a, b \in maps : MapEq(heap, a, b) = MapEq(heap, b, a)
    /\ \A a, b \in hmaps : HammerEq(heap, a, b) = HammerEq(heap, b, a)

\* C3: two HammerMaps with the same effective key-to-value mapping compare equal,
\* whatever the order of the inserts, the shadowed pairs in the overlay and the
\* layer an entry lives in.
C3_SameMappingEqual ==
    \A a, b \in hmaps :
        EffectiveMapping(a) = EffectiveMapping(b) => HammerEq(heap, a, b)

\* Two maps over different heads with the same non-empty mapping, one of them with
\* a shadowed pair in its overlay.
C3_Witness ==
    \E a, b \in hmaps :
        /\ a.head # b.head
        /\ EffectiveMapping(a) = EffectiveMapping(b)
        /\ EffectiveMapping(a) # {}
        /\ Len(hist[b]) > Cardinality(KeysOf(hist[b]))
        /\ HammerEq(heap, a, b)

\* C4: Map::get(k) returns the value of the most recently inserted pair with key k,
\* and None if k was never inserted.
C4_MapGetLatest ==
    \A m \in maps : \A k \in Keys : MapGet(heap, m, k) = Latest(hist[m], k)

\* A map with a key inserted twice with different values and a second key after it.
C4_Witness ==
    \E m \in maps : \E k1, k2 \in Keys :
        /\ Len(hist[m]) = 3
        /\ hist[m][1][1] = k1 /\ hist[m][2][1] = k1 /\ hist[m][3][1] = k2
        /\ k1 # k2
        /\ hist[m][1][2] # hist[m][2][2]
        /\ MapGet(heap, m, k1) = Some(hist[m][2][2])

\* C5: HammerMap::get(k) returns the most recent overlay value for k if k was ever
\* inserted, otherwise the head's value for k, otherwise None.
C5_HammerGetLayered ==
    \A h \in hmaps : \A k \in Keys :
        HammerGet(heap, h, k) =
            IF k \in KeysOf(hist[h]) THEN Latest(hist[h], k)
            ELSE IF \E i \in 1..Len(h.head) : h.head[i][1] = k
                 THEN Some(h.head[CHOOSE i \in 1..Len(h.head) : h.head[i][1] = k][2])
            ELSE None

\* new({k: v1}).insert(k, v2) beside new({k: v1}): the overlay's value wins in the
\* first, the head's value is read in the second.
C5_Witness ==
    \E a, b \in hmaps : \E k \in Keys : \E v1, v2 \in Values :
        /\ v1 # v2
        /\ a.head = <<<<k, v1>>>> /\ hist[a] = <<<<k, v2>>>>
        /\ b.head = <<<<k, v1>>>> /\ hist[b] = <<>>
        /\ HammerGet(heap, a, k) = Some(v2)
        /\ HammerGet(heap, b, k) = Some(v1)

\* C6: iterating a Map yields every inserted key exactly once, with the value of
\* its most recent insertion, newest first; no shadowed pair is yielded.
C6_MapIterNewestFirst ==
    \A m \in maps :
        LET items == MapItems(heap, m)
        IN  /\ items = NewestFirst(hist[m])
            /\ NoDuplicateKeys(items)
            /\ KeysOf(items) = KeysOf(hist[m])
            /\ \A i \in 1..Len(items) :
                   Some(items[i][2]) = Latest(hist[m], items[i][1])

\* insert(1,a), insert(2,b), insert(1,c) iterates as (1,c), (2,b).
C6_Witness ==
    \E m \in maps : \E a, c \in Values :
        /\ hist[m] = <<<<1, a>>, <<2, a>>, <<1, c>>>>
        /\ a # c
        /\ MapItems(heap, m) = <<<<1, c>>, <<2, a>>>>

\* C7: iterating a HammerMap yields the deduplicated overlay pairs, newest first,
\* and then the head's pairs whose key the overlay did not yield; every key of the
\* two layers is yielded exactly once, with the value get returns for it.
C7_HammerIterLayered ==
    \A h \in hmaps :
        LET items == HammerItems(heap, h)
        IN  /\ items = NewestFirst(hist[h]) \o HeadRest(h)
            /\ NoDuplicateKeys(items)
            /\ KeysOf(items) = KeysOf(hist[h]) \cup KeysOf(h.head)
            /\ \A i \in 1..Len(items) :
                   Some(items[i][2]) = HammerGet(heap, h, items[i][1])

\* A head with two keys under an overlay that shadows the first of them.
C7_Witness ==
    \E h \in hmaps :
        /\ Len(h.head) = 2
        /\ Len(hist[h]) = 1
        /\ hist[h][1][1] = h.head[1][1]
        /\ hist[h][1][2] # h.head[1][2]
        /\ HammerItems(heap, h) = <<hist[h][1], h.head[2]>>

\* C8: len() is the number of distinct live keys: for a Map the distinct keys of
\* the underlying list, for a HammerMap the size of the union of the overlay's keys
\* and the head's keys.
C8_LenDistinctKeys ==
    /\ \A m \in maps :
           /\ MapLen(heap, m) = Cardinality(KeysOf(ListItems(heap, m)))
           /\ MapLen(heap, m) = Cardinality(KeysOf(hist[m]))
           /\ \A k \in Keys, v \in Values :
                  LET once  == MapInsert(heap, m, k, v)
                      twice == MapInsert(once.heap, once.out, k, v)
                  IN  MapLen(twice.heap, twice.out) = MapLen(once.heap, once.out)
    /\ \A h \in hmaps :
           HammerLen(heap, h) = Cardinality(KeysOf(hist[h]) \cup KeysOf(h.head))

\* A map with the same key inserted twice: two cells, one key.
C8_Witness ==
    \E m \in maps :
        /\ Len(hist[m]) = 2
        /\ hist[m][1] = hist[m][2]
        /\ ListLen(m) = 2
        /\ MapLen(heap, m) = 1

\* What a caller can read from a handle.
ListReads(hp, l) == <<ListLen(l), ListIsEmpty(l), ListItems(hp, l)>>

MapReads(hp, m) ==
    <<MapLen(hp, m), MapIsEmpty(m), MapItems(hp, m),
      [k \in Keys |-> MapGet(hp, m, k)], [k \in Keys |-> MapContainsKey(hp, m, k)]>>

HammerReads(hp, h) ==
    <<HammerLen(hp, h), HammerIsEmpty(h), HammerItems(hp, h),
      [k \in Keys |-> HammerGet(hp, h, k)],
      [k \in Keys |-> HammerContainsKey(hp, h, k)]>>

\* C9: deriving new versions never changes an existing handle: whatever is read
\* from a handle the program holds reads the same after any call, and a HammerMap
\* derived from a handle has that handle's head table.
C9_Step ==
    /\ \A l \in lists : ListReads(heap', l) = ListReads(heap, l)
    /\ \A m \in maps : MapReads(heap', m) = MapReads(heap, m)
    /\ \A h \in hmaps : HammerReads(heap', h) = HammerReads(heap, h)
    /\ \A h \in hmaps' : h.head = parent'[h].head

C9_HandlesUnchanged == [][C9_Step]_vars

\* A handle held beside a handle derived from it that reads differently: a list
\* and the list pushed onto it, or a layered map and a map inserted into it.
C9_Witness ==
    \/ \E l \in lists : \E d \in lists :
           /\ l.size > 0 /\ d.cons # 0
           /\ heap[d.cons].tail = l.cons
           /\ ListReads(heap, d) # ListReads(heap, l)
    \/ \E h \in hmaps : \E d \in hmaps :
           /\ parent[d] = h /\ d # h
           /\ Len(h.head) > 0
           /\ HammerReads(heap, d) # HammerReads(heap, h)

\* C10: L.push_front(v).pop_front() is structurally equal to L; push_front returns
\* a list one longer whose first element is v and whose rest is L's elements;
\* pop_front on a non-empty list returns a list one shorter, L's elements without
\* the first.
C10_PushPop ==
    \A l \in lists :
        /\ \A v \in Pairs :
               LET r == ListPushFront(heap, l, v)
                   p == ListPopFront(r.heap, r.out)
               IN  /\ ListEq(r.heap, p, l)
                   /\ ListItems(r.heap, p) = ListItems(heap, l)
                   /\ ListLen(p) = ListLen(l)
                   /\ ListLen(r.out) = ListLen(l) + 1
                   /\ ListItems(r.heap, r.out) = <<v>> \o ListItems(heap, l)
        /\ ~ListIsEmpty(l) =>
               /\ ListLen(ListPopFront(heap, l)) = ListLen(l) - 1
               /\ ListItems(heap, ListPopFront(heap, l)) = Tail(ListItems(heap, l))

\* A list of two elements held beside the list pop_front returned for it.
C10_Witness ==
    \E l \in lists :
        /\ ListLen(l) = 2
        /\ ListPopFront(heap, l) \in lists
        /\ ListLen(ListPopFront(heap, l)) = 1

\* pop_front applied n times in a row.
RECURSIVE PopFrontTimes(_, _, _)
PopFrontTimes(hp, l, n) ==
    IF n = 0 THEN l ELSE PopFrontTimes(hp, ListPopFront(hp, l), n - 1)

\* C11: pop_front on an empty list does not fail and returns an empty list
\* (len() = 0, is_empty(), no elements), however many times it is applied in a
\* row.
C11_PopFrontTotal ==
    \A l \in lists :
        ListIsEmpty(l) =>
            \A n \in 1..(MaxCells + 1) :
                LET p == PopFrontTimes(heap, l, n)
                IN  /\ ListLen(p) = 0
                    /\ ListIsEmpty(p)
                    /\ ListItems(heap, p) = <<>>
                    /\ ListEq(heap, p, ListNew)

\* Every cell the run may allocate has been allocated and popped again: the only
\* handle left is the empty list pop_front returned, and popping it returns it.
C11_Witness ==
    /\ lists = {ListNew}
    /\ Len(heap) = MaxCells
    /\ ListPopFront(heap, ListNew) \in lists

\* The cells reachable from an Option<Rc<Cons>>.
RECURSIVE CellsFrom(_, _)
CellsFrom(hp, c) == IF c = 0 THEN 0 ELSE 1 + CellsFrom(hp, hp[c].tail)

\* C19: in every List handle reachable by push_front, push_front_many, pop_front,
\* clone and from_iter the size field is the number of cells reachable from the
\* head and the number of elements iteration yields; size is 0 exactly when cons
\* is None, is_empty() agrees with an empty iteration, and size - 1 in pop_front
\* never goes below 0.
C19_SizeIsCellCount ==
    \A l \in lists \cup maps \cup {h.chain : h \in hmaps} :
        /\ l.size = CellsFrom(heap, l.cons)
        /\ l.size = Len(ListItems(heap, l))
        /\ (l.size = 0) <=> (l.cons = 0)
        /\ ListIsEmpty(l) <=> (ListItems(heap, l) = <<>>)
        /\ l.cons # 0 => l.size - 1 >= 0
        /\ ListClone(l).size = CellsFrom(heap, ListClone(l).cons)
        /\ ListPopFront(heap, l).size = CellsFrom(heap, ListPopFront(heap, l).cons)

\* A list of three cells held beside the list of one cell at the end of its chain.
C19_Witness ==
    \E d, l \in lists :
        /\ d.size = 3 /\ l.size = 1
        /\ heap[heap[d.cons].tail].tail = l.cons
        /\ CellsFrom(heap, d.cons) = 3

\* C12: map[&k] returns the value get(&k) holds whenever get(&k) is Some and
\* panics exactly when get(&k) is None, for Map and for HammerMap; nothing else
\* can fail: the one other partial expression, size - 1 in pop_front, is only
\* evaluated on a list with a cell, whose size is at least 1.
C12_IndexPanicsIffAbsent ==
    /\ \A m \in maps : \A k \in Keys :
           LET g == MapGet(heap, m, k)
               x == MapIndex(heap, m, k)
           IN  /\ g # None => ~x.panic /\ x.value = g
               /\ x.panic <=> (g = None)
               /\ x.panic <=> (k \notin KeysOf(hist[m]))
    /\ \A h \in hmaps : \A k \in Keys :
           LET g == HammerGet(heap, h, k)
               x == HammerIndex(heap, h, k)
           IN  /\ g # None => ~x.panic /\ x.value = g
               /\ x.panic <=> (g = None)
               /\ x.panic <=> (k \notin KeysOf(hist[h]) \cup KeysOf(h.head))
    /\ \A l \in lists \cup maps \cup {h.chain : h \in hmaps} :
           l.cons # 0 => l.size >= 1

\* A layered map with one key in the head table only and the other key nowhere:
\* indexing the first returns the head's value, indexing the second panics.
C12_Witness ==
    \E h \in hmaps : \E k1, k2 \in Keys :
        /\ MapGet(heap, h.chain, k1) = None
        /\ TableGet(h.head, k1) # None
        /\ HammerIndex(heap, h, k1) = [panic |-> FALSE, value |-> TableGet(h.head, k1)]
        /\ HammerIndex(heap, h, k2).panic

\* C13: contains_key(k) is true if and only if get(k) returns Some, for every Map
\* and every HammerMap.
C13_ContainsKeyIffGet ==
    /\ \A m \in maps : \A k \in Keys :
           MapContainsKey(heap, m, k) <=> (MapGet(heap, m, k) # None)
    /\ \A h \in hmaps : \A k \in Keys :
           HammerContainsKey(heap, h, k) <=> (HammerGet(heap, h, k) # None)

\* A layered map with an empty overlay, one key in the head table and the other
\* key absent: contains_key finds the first through the head iteration.
C13_Witness ==
    \E h \in hmaps : \E k1, k2 \in Keys :
        /\ MapIsEmpty(h.chain)
        /\ KeysOf(h.head) = {k1} /\ k2 # k1
        /\ HammerContainsKey(heap, h, k1) /\ HammerGet(heap, h, k1) # None
        /\ ~HammerContainsKey(heap, h, k2) /\ HammerGet(heap, h, k2) = None

\* One call of Op per item, first item first: Op(..Op(Op(x, s[1]), s[2]).., s[n]).
RECURSIVE Repeated(_, _, _, _)
Repeated(Op(_, _, _), hp, x, s) ==
    IF s = <<>> THEN [heap |-> hp, out |-> x]
    ELSE LET before == Repeated(Op, hp, x, SubSeq(s, 1, Len(s) - 1))
         IN  Op(before.heap, before.out, s[Len(s)])

MapInsertPair(hp, m, p) == MapInsert(hp, m, p[1], p[2])
HammerInsertPair(hp, h, p) == HammerInsert(hp, h, p[1], p[2])

\* C14: a bulk operation equals the single operation repeated over the items in
\* order: push_front_many and List::from_iter equal repeated push_front, so the
\* last item is at the front; insert_many on a Map or a HammerMap iterates as
\* repeated insert does, a later pair winning over an earlier one with its key.
C14_BulkIsFold ==
    /\ \A items \in SeqsUpTo(MaxCells - Len(heap)) :
           /\ \A l \in lists :
                  LET many == ListPushFrontMany(heap, l, items)
                      each == Repeated(ListPushFront, heap, l, items)
                  IN  /\ ListItems(many.heap, many.out) = ListItems(each.heap, each.out)
                      /\ ListLen(many.out) = ListLen(each.out)
                      /\ ListItems(many.heap, many.out) =
                             Reverse(items) \o ListItems(heap, l)
           /\ lists # {} =>
                  LET from == ListFromIter(heap, items)
                      each == Repeated(ListPushFront, heap, ListNew, items)
                  IN  /\ ListItems(from.heap, from.out) = ListItems(each.heap, each.out)
                      /\ ListLen(from.out) = ListLen(each.out)
                      /\ ListItems(from.heap, from.out) = Reverse(items)
           /\ \A m \in maps :
                  LET many == MapInsertMany(heap, m, items)
                      each == Repeated(MapInsertPair, heap, m, items)
                  IN  /\ MapItems(many.heap, many.out) = MapItems(each.heap, each.out)
                      /\ MapItems(many.heap, many.out) = NewestFirst(hist[m] \o items)
    /\ \A items \in SeqsUpTo(MaxEntries - Len(heap) - HeadEntries(hmaps)) :
           \A h \in hmaps :
               LET many == HammerInsertMany(heap, h, items)
                   each == Repeated(HammerInsertPair, heap, h, items)
               IN  /\ HammerItems(many.heap, many.out) = HammerItems(each.heap, each.out)
                   /\ \A k \in Keys :
                          HammerGet(many.heap, many.out, k) =
                              IF k \in KeysOf(items) THEN Latest(items, k)
                              ELSE HammerGet(heap, h, k)

\* A list held beside the list push_front_many returns for it and two different
\* items: the second item is at the front, the first behind it, then the list.
C14_Witness ==
    \E l, d \in lists : \E a, b \in Pairs :
        /\ a # b
        /\ ~ListIsEmpty(l)
        /\ d = ListPushFrontMany(SubSeq(heap, 1, Len(heap) - 2), l, <<a, b>>).out
        /\ ListItems(heap, d) = <<b, a>> \o ListItems(heap, l)

PairSet(s) == {s[i] : i \in 1..Len(s)}

\* Each key of s with the value of its last pair in s.
LastOccurrences(s) == {p \in Pairs : Latest(s, p[1]) = Some(p[2])}

\* C15: for every sequence of pairs, repeated keys included, from_iter(pairs) for
\* Map and for HammerMap iterates over the same set of pairs, each key once with
\* the value of its last occurrence, as insert folded over an empty map in the
\* same order, and the two maps compare equal in both directions.
C15_FromIterIsFold ==
    /\ (lists = {} /\ hmaps = {}) =>
           \A items \in SeqsUpTo(MaxCells - Len(heap)) :
               LET from == MapFromIter(heap, items)
                   each == Repeated(MapInsertPair, from.heap, MapNew, items)
                   a    == MapItems(each.heap, from.out)
                   b    == MapItems(each.heap, each.out)
               IN  /\ PairSet(a) = PairSet(b)
                   /\ PairSet(a) = LastOccurrences(items)
                   /\ NoDuplicateKeys(a) /\ NoDuplicateKeys(b)
                   /\ MapEq(each.heap, from.out, each.out)
                   /\ MapEq(each.heap, each.out, from.out)
    /\ (lists = {} /\ maps = {}) =>
           \A items \in SeqsUpTo(MaxEntries - Len(heap) - HeadEntries(hmaps)) :
               \A from \in HammerFromIter(items) :
                   LET each == Repeated(HammerInsertPair, heap, HammerNew(<<>>), items)
                       a    == HammerItems(each.heap, from)
                       b    == HammerItems(each.heap, each.out)
                   IN  /\ PairSet(a) = PairSet(b)
                       /\ PairSet(a) = LastOccurrences(items)
                       /\ NoDuplicateKeys(a) /\ NoDuplicateKeys(b)
                       /\ HammerEq(each.heap, from, each.out)
                       /\ HammerEq(each.heap, each.out, from)

\* from_iter([(k, v1), (k, v2)]) has returned a map beside another map: it
\* iterates as (k, v2) alone.
C15_Witness ==
    \E m \in maps : \E k \in Keys : \E v1, v2 \in Values :
        /\ parent[m] = m
        /\ v1 # v2
        /\ hist[m] = <<<<k, v1>>, <<k, v2>>>>
        /\ m = MapFromIter(SubSeq(heap, 1, m.cons - 2), hist[m]).out
        /\ MapItems(heap, m) = <<<<k, v2>>>>

\* key: value for each pair of s, in braces, separated by commas.
RECURSIVE BracePairs(_)
BracePairs(s) ==
    IF s = <<>> THEN <<>>
    ELSE <<ToString(s[1][1]), ": ", ToString(s[1][2])>>
         \o (IF Len(s) > 1 THEN <<", ">> ELSE <<>>) \o BracePairs(Tail(s))

\* C16: Debug formatting of a Map renders exactly the deduplicated pairs in
\* iteration order, newest first, each live key once as key: value, in braces and
\* separated by commas; a shadowed pair never appears in the rendering.
C16_MapDebugBraces ==
    \A m \in maps :
        /\ MapDebug(heap, m) = <<"{">> \o BracePairs(MapItems(heap, m)) \o <<"}">>
        /\ MapDebug(heap, m) = HammerDebug(heap, [chain |-> m, head |-> <<>>])

\* p before q as pairs of integers.
PairBefore(p, q) == p[1] < q[1] \/ (p[1] = q[1] /\ p[2] < q[2])

\* s before t lexicographically: s is a proper prefix of t, or the first element
\* in which they differ is smaller in s.
LexBefore(s, t) ==
    \/ Len(s) < Len(t) /\ s = SubSeq(t, 1, Len(s))
    \/ \E i \in 1..Len(s) :
           /\ i <= Len(t)
           /\ SubSeq(s, 1, i - 1) = SubSeq(t, 1, i - 1)
           /\ PairBefore(s[i], t[i])

\* C17: two lists are equal iff they have the same elements in the same order,
\* and a < b iff a precedes b lexicographically: the first differing element
\* decides, a proper prefix is smaller than the longer list, the empty list is
\* smaller than every non-empty list.
C17_ListEqOrdStructural ==
    \A a, b \in lists :
        LET s == ListItems(heap, a)
            t == ListItems(heap, b)
        IN  /\ ListEq(heap, a, b) <=> (s = t)
            /\ ListLt(heap, a, b) <=> LexBefore(s, t)
            /\ (ListCmp(heap, a, b) = "Equal") <=> (s = t)
            /\ (ListCmp(heap, a, b) = "Greater") <=> LexBefore(t, s)
            /\ (s = <<>> /\ t # <<>>) => ListLt(heap, a, b)

\* Two lists that differ in their first element, the longer one the smaller.
C17_Witness ==
    \E a, b \in lists :
        /\ ListLen(a) = 2 /\ ListLen(b) = 1
        /\ PairBefore(heap[a.cons].head, heap[b.cons].head)
        /\ ListLt(heap, a, b)
        /\ ~ListEq(heap, a, b)

\* C18: ChainMap, FlailMap and HammerMap built from the same head table and the
\* same inserts return the same results for get, len, is_empty, contains_key and
\* equality and iterate over the same set of pairs, keys that are only in the
\* head table included.
C18_VariantsIdentical ==
    /\ \A h \in hmaps :
           /\ \A k \in Keys :
                  /\ ChainGet(heap, h, k) = HammerGet(heap, h, k)
                  /\ FlailGet(heap, h, k) = HammerGet(heap, h, k)
                  /\ ChainContainsKey(heap, h, k) = HammerContainsKey(heap, h, k)
                  /\ FlailContainsKey(heap, h, k) = HammerContainsKey(heap, h, k)
           /\ ChainIsEmpty(h) = HammerIsEmpty(h)
           /\ FlailIsEmpty(h) = HammerIsEmpty(h)
           /\ ChainLen(heap, h) = HammerLen(heap, h)
           /\ FlailLen(heap, h) = HammerLen(heap, h)
           /\ PairSet(ChainItems(heap, h)) = PairSet(HammerItems(heap, h))
           /\ PairSet(FlailItems(heap, h)) = PairSet(HammerItems(heap, h))
    /\ \A a, b \in hmaps :
           /\ ChainEq(heap, a, b) = HammerEq(heap, a, b)
           /\ FlailEq(heap, a, b) = HammerEq(heap, a, b)

=============================================================================
